---- MODULE Spec2Model ----
(***************************************************************************)
(* Model of podcastfy/api/fast_app.py: the /generate request handler and   *)
(* the configuration-normalisation helpers it is built from.               *)
(*                                                                         *)
(* JSON / YAML values are tagged records [k |-> kind, v |-> payload]:      *)
(*   null, bool, num, str, list, dict.                                     *)
(* A string is a sequence of tokens.  A token is one character (" ", a     *)
(* tab, a newline, a letter, a digit ...) or a named run of non-blank      *)
(* characters whose character count is given by Width.  A dict payload is  *)
(* a function whose domain is the set of its keys (strings, i.e. token     *)
(* sequences).  A number n is stored in tenths (0.7 is 7, 500 is 5000).    *)
(***************************************************************************)
EXTENDS Integers, Sequences, FiniteSets, TLC

VARIABLES
    value,       \* _parse_voice: the argument
    voice,       \* _parse_voice: the returned value (Pending before the call)
    x,           \* _strip_empty: the argument
    cleaned,     \* _strip_empty: the returned value (Pending before the call)
    environ,     \* os.environ: the process-wide environment
    yaml_file,   \* what conversation_config.yaml holds on disk
    pc,          \* per worker thread: position inside generate_podcast_endpoint
    data,        \* per worker thread: the request body
    google_key,  \* per worker thread: local google_key (line 156)
    base_config, \* per worker thread: local base_config (line 166)
    gp_kwargs,   \* per worker thread: the keyword arguments built for generate_podcast
    seen_env,    \* per worker thread: os.environ as the generate_podcast call saw it
    response,    \* per worker thread: the HTTP outcome of the request
    universe     \* which family of requests the clients send in this run

vars == <<value, voice, x, cleaned, environ, yaml_file, pc, data, google_key,
          base_config, gp_kwargs, seen_env, response, universe>>

-----------------------------------------------------------------------------
(* Values *)

Null == [k |-> "null", v |-> 0]
Pending == [k |-> "pending", v |-> 0]
Bool(b) == [k |-> "bool", v |-> b]
Num(tenths) == [k |-> "num", v |-> tenths]
Str(s) == [k |-> "str", v |-> s]
List(items) == [k |-> "list", v |-> items]
Dict(f) == [k |-> "dict", v |-> f]
EmptyDict == Dict(<<>>)

IsNone(a) == a.k = "null"
IsStr(a) == a.k = "str"
IsList(a) == a.k = "list"
IsDict(a) == a.k = "dict"

\* A one-entry / n-entry dict payload from key/value pairs.
Entry(key, val) == [kk \in {<<key>>} |-> val]
Merge2(f, g) == [kk \in (DOMAIN f) \cup (DOMAIN g) |-> IF kk \in DOMAIN g THEN g[kk] ELSE f[kk]]

\* Python truthiness.
Truthy(a) ==
    CASE a.k = "null" -> FALSE
      [] a.k = "bool" -> a.v
      [] a.k = "num"  -> a.v # 0
      [] a.k = "str"  -> a.v # <<>>
      [] a.k = "list" -> a.v # <<>>
      [] a.k = "dict" -> DOMAIN a.v # {}
      [] OTHER -> TRUE

\* Python "a or b".
Or(a, b) == IF Truthy(a) THEN a ELSE b

\* dict.get(key) / dict.get(key, default) with the key a string (token sequence).
GetK(d, key, default) == IF key \in DOMAIN d.v THEN d.v[key] ELSE default
Get(d, name) == GetK(d, <<name>>, Null)
GetD(d, name, default) == GetK(d, <<name>>, default)
Has(d, name) == <<name>> \in DOMAIN d.v

-----------------------------------------------------------------------------
(* Strings *)

Whitespace == {" ", "\t", "\n"}

\* Characters a token stands for.
Width(tok) ==
    CASE tok = "Rachel" -> 6
      [] tok = "uUnmYv9aJqaqzs1wcFRH" -> 20
      [] tok = "abc123xyz9" -> 10
      [] tok = "openai" -> 6
      [] tok = "elevenlabs" -> 10
      [] tok = "English" -> 7
      [] tok = "German" -> 6
      [] tok = "Schreibe" -> 8
      [] tok = "exakt" -> 5
      [] tok = "Woerter." -> 7        \* stands for "W\"orter." (o umlaut)
      [] tok = "Zielumfang:" -> 11
      [] tok = "bis" -> 3
      [] OTHER -> 1

RECURSIVE len(_)
len(s) == IF s = <<>> THEN 0 ELSE Width(Head(s)) + len(Tail(s))

RECURSIVE lstrip(_)
lstrip(s) == IF s = <<>> THEN s
             ELSE IF Head(s) \in Whitespace THEN lstrip(Tail(s)) ELSE s

RECURSIVE rstrip(_)
rstrip(s) == IF s = <<>> THEN s
             ELSE IF s[Len(s)] \in Whitespace THEN rstrip(SubSeq(s, 1, Len(s) - 1)) ELSE s

\* str.strip()
strip(s) == rstrip(lstrip(s))

Contains(s, c) == \E i \in 1..Len(s) : s[i] = c

-----------------------------------------------------------------------------
(* _parse_voice, lines 45-76 *)

IdMinLen == 10

_parse_voice_dict(val) ==
    LET vid  == Or(Get(val, "voice_id"), Get(val, "id"))
        name == Get(val, "name")
    IN  IF IsStr(vid) /\ strip(vid.v) # <<>>
        THEN Dict(Entry("voice_id", Str(strip(vid.v))))
        ELSE IF IsStr(name) /\ strip(name.v) # <<>>
        THEN Str(strip(name.v))
        ELSE Null

\* _parse_voice with the length test of line 72 off by one (len(s) > 10)
_parse_voice_str_gt(val) ==
    LET s == strip(val.v)
    IN  IF s = <<>> THEN Null
        ELSE IF ~Contains(s, " ") /\ len(s) > IdMinLen
        THEN Dict(Entry("voice_id", Str(s)))
        ELSE Str(s)

_parse_voice_str(val) ==
    LET s == strip(val.v)
    IN  IF s = <<>> THEN Null
        ELSE IF ~Contains(s, " ") /\ len(s) >= IdMinLen
        THEN Dict(Entry("voice_id", Str(s)))
        ELSE Str(s)

_parse_voice(val) ==
    IF IsNone(val) THEN Null
    ELSE IF IsDict(val) THEN _parse_voice_dict(val)
    ELSE IF IsStr(val) THEN _parse_voice_str(val)
    ELSE Null

-----------------------------------------------------------------------------
(* _strip_empty, lines 92-109 *)

RECURSIVE _strip_empty(_)
RECURSIVE strip_list(_)

\* lines 99-103 without the test of line 102: None items are kept
strip_list_keeps_none(items) ==
    IF items = <<>> THEN <<>>
    ELSE <<_strip_empty(Head(items))>> \o strip_list(Tail(items))

\* lines 99-103: the cleaned items that are not None, in order
strip_list(items) ==
    IF items = <<>> THEN <<>>
    ELSE LET ci == _strip_empty(Head(items))
         IN  (IF IsNone(ci) THEN <<>> ELSE <<ci>>) \o strip_list(Tail(items))

_strip_empty(val) ==
    IF IsNone(val) THEN Null
    ELSE IF IsStr(val) THEN
        (IF strip(val.v) # <<>> THEN Str(strip(val.v)) ELSE Null)
    ELSE IF IsList(val) THEN
        (LET c == strip_list(val.v) IN IF c # <<>> THEN List(c) ELSE Null)
    ELSE IF IsDict(val) THEN
        (LET c    == [kk \in DOMAIN val.v |-> _strip_empty(val.v[kk])]
             keep == {kk \in DOMAIN c : ~IsNone(c[kk])}
         IN  IF keep # {} THEN Dict([kk \in keep |-> c[kk]]) ELSE Null)
    ELSE val

-----------------------------------------------------------------------------
(* _deep_merge, lines 79-89 *)

RECURSIVE _deep_merge(_, _)
_deep_merge(a, b) ==
    LET out == IF Truthy(a) THEN a.v ELSE <<>>
        upd == IF Truthy(b) THEN b.v ELSE <<>>
    IN  Dict([kk \in (DOMAIN out) \cup (DOMAIN upd) |->
              IF kk \in DOMAIN upd
              THEN IF IsDict(upd[kk]) /\ kk \in DOMAIN out /\ IsDict(out[kk])
                   THEN _deep_merge(out[kk], upd[kk])
                   ELSE upd[kk]
              ELSE out[kk]])

-----------------------------------------------------------------------------
(* Numbers: float(), int(), decimal formatting *)

DigitChars == <<"0", "1", "2", "3", "4", "5", "6", "7", "8", "9">>
IsDigit(c) == \E i \in 1..10 : DigitChars[i] = c
DigitVal(c) == (CHOOSE i \in 1..10 : DigitChars[i] = c) - 1

RECURSIVE DigitsValue(_)
DigitsValue(s) ==
    IF s = <<>> THEN 0
    ELSE DigitsValue(SubSeq(s, 1, Len(s) - 1)) * 10 + DigitVal(s[Len(s)])

\* f"{n}" for an int n >= 0
RECURSIVE FormatInt(_)
FormatInt(n) ==
    IF n < 10 THEN <<DigitChars[n + 1]>>
    ELSE FormatInt(n \div 10) \o <<DigitChars[(n % 10) + 1]>>

\* float(s) for a str s over the modelled characters: surrounding blanks are
\* ignored, then an optional sign, digits, and an optional "." with digits.
\* The value is kept to one decimal place.  ok = FALSE is ValueError.
ParseFloat(s) ==
    LET t     == strip(s)
        neg   == t # <<>> /\ Head(t) = "-"
        body  == IF t # <<>> /\ Head(t) \in {"-", "+"} THEN Tail(t) ELSE t
        dots  == {i \in 1..Len(body) : body[i] = "."}
        cut   == IF dots = {} THEN Len(body) + 1
                 ELSE CHOOSE i \in dots : \A j \in dots : i <= j
        intp  == SubSeq(body, 1, cut - 1)
        fracp == SubSeq(body, cut + 1, Len(body))
        ok    == /\ Len(intp) + Len(fracp) >= 1
                 /\ \A i \in 1..Len(intp) : IsDigit(intp[i])
                 /\ \A i \in 1..Len(fracp) : IsDigit(fracp[i])
        mag   == DigitsValue(intp) * 10 + (IF fracp # <<>> THEN DigitVal(fracp[1]) ELSE 0)
    IN  [ok |-> ok, v |-> IF ~ok THEN 0 ELSE IF neg THEN -mag ELSE mag]

\* int(f): truncation toward zero of a number held in tenths
Trunc(tenths) == IF tenths >= 0 THEN tenths \div 10 ELSE -((-tenths) \div 10)

\* float(a) succeeds (otherwise TypeError / ValueError)
FloatOk(a) ==
    \/ a.k \in {"num", "bool"}
    \/ IsStr(a) /\ ParseFloat(a.v).ok

\* float(a)
Float(a) ==
    IF a.k = "num" THEN a
    ELSE IF a.k = "bool" THEN Num(IF a.v THEN 10 ELSE 0)
    ELSE Num(ParseFloat(a.v).v)

-----------------------------------------------------------------------------
(* _coerce_int, lines 112-127 *)

_coerce_int(val) ==
    IF IsNone(val) THEN Null
    ELSE IF val.k = "bool" THEN Null
    ELSE IF val.k = "num" THEN
        (IF Trunc(val.v) > 0 THEN Num(Trunc(val.v) * 10) ELSE Null)
    ELSE IF IsStr(val) THEN
        (IF strip(val.v) = <<>> THEN Null
         ELSE IF ~ParseFloat(val.v).ok THEN Null
         ELSE IF Trunc(ParseFloat(val.v).v) > 0
              THEN Num(Trunc(ParseFloat(val.v).v) * 10) ELSE Null)
    ELSE Null   \* str() of a list or a mapping is no number: ValueError, caught

-----------------------------------------------------------------------------
(* _inject_word_count_instruction, lines 130-146 *)

Max(a, b) == IF a >= b THEN a ELSE b

\* int(word_count * 0.05), the same as word_count // 20 for every count below 200000
FivePercent(n) == n \div 20

\* line 140
low(n) == Max(1, n - Max(10, FivePercent(n)))
\* line 141 without the floor of 10 words
high_without_floor(n) == n + FivePercent(n)

\* line 141
high(n) == n + Max(10, FivePercent(n))

\* lines 136-142
wc_line(n, strict) ==
    IF strict
    THEN <<"Schreibe", " ", "exakt", " ">> \o FormatInt(n) \o <<" ", "Woerter.">>
    ELSE <<"Zielumfang:", " ">> \o FormatInt(low(n)) \o <<" ", "bis", " ">>
         \o FormatInt(high(n)) \o <<" ", "Woerter.">>

_inject_word_count_instruction(user_instructions, word_count, strict) ==
    LET base == strip(IF Truthy(user_instructions) THEN user_instructions.v ELSE <<>>)
    IN  IF ~Truthy(word_count) THEN Str(base)
        ELSE IF base # <<>>
        THEN Str(base \o <<"\n">> \o wc_line(Trunc(word_count.v), strict))
        ELSE Str(wc_line(Trunc(word_count.v), strict))

-----------------------------------------------------------------------------
(* os.environ helpers, lines 21-28 *)

EnvNames == {"OPENAI_API_KEY", "GOOGLE_API_KEY", "GEMINI_API_KEY",
             "ELEVENLABS_API_KEY", "ELEVENLABS_KEY"}

\* str(value) for the values a credential field is sent as (strings, whole numbers)
PyStr(a) == IF IsStr(a) THEN a.v ELSE IF a.k = "num" THEN FormatInt(Trunc(a.v)) ELSE <<"?">>

\* os.getenv(name): None when unset
getenv(env, name) == env[name]

\* lines 21-23
_set_env_if_present(env, env_name, val) ==
    IF ~IsNone(val) /\ strip(PyStr(val)) # <<>>
    THEN [env EXCEPT ![env_name] = Str(strip(PyStr(val)))]
    ELSE env

\* line 27: the test of _set_env_alias_if_present
alias_wanted(env, target, source) ==
    ~Truthy(getenv(env, target)) /\ Truthy(getenv(env, source))

-----------------------------------------------------------------------------
(* load_base_config, lines 31-42 *)

\* yaml_file.state: "missing" (open fails), "unreadable" (read fails),
\* "unparsable" (yaml.safe_load raises), "parsed" (safe_load returns doc).
load_base_config(file) ==
    IF file.state = "parsed" THEN Or(file.doc, EmptyDict) ELSE EmptyDict

-----------------------------------------------------------------------------
(* generate_podcast_endpoint, lines 168-241: the resolution of one request *)

\* The key a value is stored under when used as a dict key.
KeyOf(a) == IF IsStr(a) THEN a.v ELSE <<"<None>">>

\* lines 168-172
output_language(d, b) ==
    Or(Or(Get(d, "output_language"), Get(d, "language")),
       GetD(b, "output_language", Str(<<"English">>)))

\* line 175
word_count(d) ==
    _coerce_int(Or(Or(Get(d, "word_count"), Get(d, "target_words")),
                   Get(d, "target_word_count")))

\* line 176
word_count_strict(d) == Truthy(GetD(d, "word_count_strict", Bool(FALSE)))

\* line 185 (and the same expression inside line 181)
tts_root(b) == Or(GetD(b, "text_to_speech", EmptyDict), EmptyDict)

\* lines 179-182
tts_model(d, b) ==
    GetD(d, "tts_model", GetD(tts_root(b), "default_tts_model", Str(<<"openai">>)))

\* line 186
tts_model_cfg(d, b) ==
    Or(GetK(tts_root(b), KeyOf(tts_model(d, b)), EmptyDict), EmptyDict)

\* line 188
voices_in(d) == Or(GetD(d, "voices", EmptyDict), EmptyDict)

\* line 189
default_voices(d, b) == Or(GetD(tts_model_cfg(d, b), "default_voices", EmptyDict), EmptyDict)

\* line 191 without the fallback to the base document's voice
q_voice_request_only(d, b) == _parse_voice(Get(voices_in(d), "question"))

\* line 191
q_voice(d, b) ==
    Or(_parse_voice(Get(voices_in(d), "question")),
       _parse_voice(Get(default_voices(d, b), "question")))

\* line 192
a_voice(d, b) ==
    Or(_parse_voice(Get(voices_in(d), "answer")),
       _parse_voice(Get(default_voices(d, b), "answer")))

\* line 195
user_instr_in(d, b) ==
    Or(Get(d, "user_instructions"), GetD(b, "user_instructions", Str(<<>>)))

\* line 196
user_instructions(d, b) ==
    _inject_word_count_instruction(user_instr_in(d, b), word_count(d), word_count_strict(d))

\* line 204, before float()
creativity_in(d, b) == GetD(d, "creativity", GetD(b, "creativity", Num(7)))

\* An exception raised inside lines 168-241 (caught at line 268: HTTP 500).
ResolveRaises(d, b) ==
    \/ ~IsDict(b)                                     \* 171 / 181: base_config.get
    \/ ~IsDict(tts_root(b))                           \* 181: (...).get
    \/ tts_model(d, b).k \in {"list", "dict"}         \* 186: unhashable key
    \/ ~IsDict(tts_model_cfg(d, b))                   \* 189
    \/ ~IsDict(voices_in(d))                          \* 191
    \/ /\ ~IsDict(default_voices(d, b))               \* 191 / 192
       /\ \/ ~Truthy(_parse_voice(Get(voices_in(d), "question")))
          \/ ~Truthy(_parse_voice(Get(voices_in(d), "answer")))
    \/ Truthy(user_instr_in(d, b)) /\ ~IsStr(user_instr_in(d, b))   \* 131: .strip()
    \/ ~FloatOk(creativity_in(d, b))                  \* 204: float()

\* lines 214-223
tts_override(d, b) ==
    Dict(Merge2(Entry("default_tts_model", tts_model(d, b)),
                [kk \in {KeyOf(tts_model(d, b))} |->
                    Dict(Merge2(tts_model_cfg(d, b).v,
                                Entry("default_voices",
                                      Dict(Merge2(Entry("question", q_voice(d, b)),
                                                  Entry("answer", a_voice(d, b)))))))]))

\* lines 199-224
convo_override(d, b) ==
    Dict([kk \in {<<"podcast_name">>, <<"podcast_tagline">>, <<"output_language">>,
                  <<"user_instructions">>, <<"creativity">>, <<"conversation_style">>,
                  <<"roles_person1">>, <<"roles_person2">>, <<"dialogue_structure">>,
                  <<"engagement_techniques">>, <<"target_word_count">>,
                  <<"text_to_speech">>} |->
        CASE kk = <<"podcast_name">> ->
                Or(Or(Get(d, "name"), Get(d, "podcast_name")), Get(b, "podcast_name"))
          [] kk = <<"podcast_tagline">> -> Or(Get(d, "tagline"), Get(b, "podcast_tagline"))
          [] kk = <<"output_language">> -> output_language(d, b)
          [] kk = <<"user_instructions">> -> user_instructions(d, b)
          [] kk = <<"creativity">> -> Float(creativity_in(d, b))
          [] kk = <<"conversation_style">> ->
                GetD(d, "conversation_style", GetD(b, "conversation_style", List(<<>>)))
          [] kk = <<"roles_person1">> -> GetD(d, "roles_person1", Get(b, "roles_person1"))
          [] kk = <<"roles_person2">> -> GetD(d, "roles_person2", Get(b, "roles_person2"))
          [] kk = <<"dialogue_structure">> ->
                GetD(d, "dialogue_structure", GetD(b, "dialogue_structure", List(<<>>)))
          [] kk = <<"engagement_techniques">> ->
                GetD(d, "engagement_techniques", GetD(b, "engagement_techniques", List(<<>>)))
          [] kk = <<"target_word_count">> -> word_count(d)
          [] OTHER -> tts_override(d, b)])

\* lines 226-227
conversation_config(d, b) ==
    LET merged == _deep_merge(b, convo_override(d, b))
    IN  Or(_strip_empty(merged), merged)

\* lines 230-241
build_gp_kwargs(d, b) ==
    Or(_strip_empty(Dict(
        [kk \in {<<"urls">>, <<"url_file">>, <<"transcript_file">>, <<"image_paths">>,
                 <<"text">>, <<"topic">>, <<"conversation_config">>, <<"tts_model">>,
                 <<"longform">>} |->
            CASE kk = <<"conversation_config">> -> conversation_config(d, b)
              [] kk = <<"tts_model">> -> tts_model(d, b)
              [] kk = <<"longform">> -> Bool(Truthy(GetD(d, "is_long_form", Bool(FALSE))))
              [] OTHER -> GetK(d, kk, Null)])),
       EmptyDict)

-----------------------------------------------------------------------------
(* The request handler as a state machine.  FastAPI runs the synchronous   *)
(* handler in a thread pool: one thread per request in flight, all sharing *)
(* os.environ.  Each write to os.environ is one step.                      *)

Threads == {1, 2}

\* Threads that take requests: one when requests are handled one at a time.
Workers(u) == IF u = "parallel" THEN Threads ELSE {1}

NoResponse == [status |-> 0, called |-> FALSE]
UnsetEnv == [n \in EnvNames |-> Null]

\* A dict from a set of <<name, value>> pairs.
MkDict(pairs) ==
    Dict([kk \in {<<p[1]>> : p \in pairs} |-> (CHOOSE p \in pairs : <<p[1]>> = kk)[2]])

\* A parsed YAML file / a file that cannot be used.
Parsed(doc) == [state |-> "parsed", doc |-> doc]
Broken(why) == [state |-> why, doc |-> Null]

Goto(t, label) == pc' = [pc EXCEPT ![t] = label]

\* line 153
SetOpenAI(t) ==
    /\ pc[t] = "openai"
    /\ environ' = _set_env_if_present(environ, "OPENAI_API_KEY", Get(data[t], "openai_key"))
    /\ Goto(t, "google")
    /\ UNCHANGED <<value, voice, x, cleaned, yaml_file, data, google_key, base_config,
                   gp_kwargs, seen_env, response, universe>>

\* lines 156-157
SetGoogle(t) ==
    /\ pc[t] = "google"
    /\ LET key == Or(Get(data[t], "google_key"), Get(data[t], "google_api_key"))
       IN  /\ google_key' = [google_key EXCEPT ![t] = key]
           /\ environ' = _set_env_if_present(environ, "GOOGLE_API_KEY", key)
    /\ Goto(t, "gemini_test")
    /\ UNCHANGED <<value, voice, x, cleaned, yaml_file, data, base_config,
                   gp_kwargs, seen_env, response, universe>>

\* line 160
TestGemini(t) ==
    /\ pc[t] = "gemini_test"
    /\ IF Truthy(google_key[t]) /\ ~Truthy(getenv(environ, "GEMINI_API_KEY"))
       THEN Goto(t, "gemini_set")
       ELSE Goto(t, "elevenlabs")
    /\ UNCHANGED <<value, voice, x, cleaned, environ, yaml_file, data, google_key,
                   base_config, gp_kwargs, seen_env, response, universe>>

\* line 161
SetGemini(t) ==
    /\ pc[t] = "gemini_set"
    /\ environ' = [environ EXCEPT !["GEMINI_API_KEY"] = Str(strip(PyStr(google_key[t])))]
    /\ Goto(t, "elevenlabs")
    /\ UNCHANGED <<value, voice, x, cleaned, yaml_file, data, google_key, base_config,
                   gp_kwargs, seen_env, response, universe>>

\* line 163
SetElevenLabs(t) ==
    /\ pc[t] = "elevenlabs"
    /\ environ' = _set_env_if_present(environ, "ELEVENLABS_API_KEY",
                                      Get(data[t], "elevenlabs_key"))
    /\ Goto(t, "alias_test")
    /\ UNCHANGED <<value, voice, x, cleaned, yaml_file, data, google_key, base_config,
                   gp_kwargs, seen_env, response, universe>>

\* lines 164, 27
TestAlias(t) ==
    /\ pc[t] = "alias_test"
    /\ IF alias_wanted(environ, "ELEVENLABS_API_KEY", "ELEVENLABS_KEY")
       THEN Goto(t, "alias_set")
       ELSE Goto(t, "load")
    /\ UNCHANGED <<value, voice, x, cleaned, environ, yaml_file, data, google_key,
                   base_config, gp_kwargs, seen_env, response, universe>>

\* line 28
SetAlias(t) ==
    /\ pc[t] = "alias_set"
    /\ environ' = [environ EXCEPT !["ELEVENLABS_API_KEY"] = environ["ELEVENLABS_KEY"]]
    /\ Goto(t, "load")
    /\ UNCHANGED <<value, voice, x, cleaned, yaml_file, data, google_key, base_config,
                   gp_kwargs, seen_env, response, universe>>

\* line 166
LoadBaseConfig(t) ==
    /\ pc[t] = "load"
    /\ base_config' = [base_config EXCEPT ![t] = load_base_config(yaml_file)]
    /\ Goto(t, "resolve")
    /\ UNCHANGED <<value, voice, x, cleaned, environ, yaml_file, data, google_key,
                   gp_kwargs, seen_env, response, universe>>

\* lines 168-241; an exception ends the request at lines 268-270
Resolve(t) ==
    /\ pc[t] = "resolve"
    /\ IF ResolveRaises(data[t], base_config[t])
       THEN /\ response' = [response EXCEPT ![t] = [status |-> 500, called |-> FALSE]]
            /\ Goto(t, "idle")
            /\ UNCHANGED gp_kwargs
       ELSE /\ gp_kwargs' = [gp_kwargs EXCEPT ![t] = build_gp_kwargs(data[t], base_config[t])]
            /\ Goto(t, "call")
            /\ UNCHANGED response
    /\ UNCHANGED <<value, voice, x, cleaned, environ, yaml_file, data, google_key,
                   base_config, seen_env, universe>>

\* line 250: generate_podcast is entered and reads the credentials from os.environ
Call(t) ==
    /\ pc[t] = "call"
    /\ seen_env' = [seen_env EXCEPT ![t] = environ]
    /\ response' = [response EXCEPT ![t] = [status |-> 0, called |-> TRUE]]
    /\ Goto(t, "running")
    /\ UNCHANGED <<value, voice, x, cleaned, environ, yaml_file, data, google_key,
                   base_config, gp_kwargs, universe>>

\* lines 250-270: generate_podcast returns a path to a file, an object with
\* audio_path, something else, or raises
Return(t) ==
    /\ pc[t] = "running"
    /\ \E result \in {"path", "audio_path", "invalid", "raises"} :
          response' = [response EXCEPT ![t] =
              [status |-> IF result \in {"path", "audio_path"} THEN 200 ELSE 500,
               called |-> TRUE]]
    /\ Goto(t, "idle")
    /\ UNCHANGED <<value, voice, x, cleaned, environ, yaml_file, data, google_key,
                   base_config, gp_kwargs, seen_env, universe>>

-----------------------------------------------------------------------------
(* Inputs: the requests clients send, the YAML files on disk, the          *)
(* environment the process starts with.                                    *)

W(tok) == Str(<<tok>>)

\* Bounds of the inputs
MaxVoiceLen == 11
MaxNodes == 4
MaxCount == 25

\* The credential every client of the non-credential runs sends along.
WithKey(pairs) == MkDict(pairs \cup {<<"google_key", W("g1")>>})

\* A complete base document.
FullBase ==
    MkDict({
        <<"podcast_name", W("BaseCast")>>,
        <<"podcast_tagline", W("BaseTagline")>>,
        <<"output_language", W("German")>>,
        <<"user_instructions", Str(<<"Be", " ", "kind">>)>>,
        <<"creativity", Num(5)>>,
        <<"conversation_style", List(<<W("casual")>>)>>,
        <<"roles_person1", W("host")>>,
        <<"roles_person2", W("guest")>>,
        <<"dialogue_structure", List(<<W("Intro"), W("Outro")>>)>>,
        <<"engagement_techniques", List(<<W("humor")>>)>>,
        <<"text_to_speech", MkDict({
            <<"default_tts_model", W("elevenlabs")>>,
            <<"elevenlabs", MkDict({
                <<"model", W("eleven_multilingual_v2")>>,
                <<"default_voices", MkDict({<<"question", W("Rachel")>>,
                                            <<"answer", W("uUnmYv9aJqaqzs1wcFRH")>>})>>})>>,
            <<"openai", MkDict({<<"model", W("tts-1-hd")>>})>>})>>})

\* ---- run "content": which content selectors a request carries
ContentRequests ==
    { WithKey({}),
      WithKey({<<"language", W("German")>>}),
      WithKey({<<"topic", Str(<<"ocean", " ", "currents">>)>>}),
      WithKey({<<"text", W("story")>>}),
      WithKey({<<"urls", List(<<W("https://a")>>)>>}),
      WithKey({<<"url_file", W("urls.txt")>>}),
      WithKey({<<"transcript_file", W("t.txt")>>}),
      WithKey({<<"image_paths", List(<<W("a.png")>>)>>}),
      WithKey({<<"topic", W("tides")>>, <<"tts_model", W("openai")>>}),
      WithKey({<<"topic", W("tides")>>, <<"tts_model", Str(<<>>)>>}),
      WithKey({<<"topic", W("tides")>>, <<"is_long_form", Bool(TRUE)>>}) }

ContentFiles ==
    { Broken("missing"), Broken("unreadable"), Broken("unparsable"),
      Parsed(Null), Parsed(List(<<>>)), Parsed(List(<<W("a")>>)), Parsed(W("a")),
      Parsed(EmptyDict), Parsed(MkDict({<<"output_language", Str(<<>>)>>})),
      Parsed(FullBase) }

\* ---- run "fields": one configurable field at a time, empty or not
FieldValues ==
    { <<"tts_model", Null>>, <<"tts_model", Str(<<>>)>>, <<"tts_model", W("openai")>>,
      <<"output_language", Null>>, <<"output_language", Str(<<>>)>>,
      <<"output_language", W("French")>>,
      <<"user_instructions", Null>>, <<"user_instructions", Str(<<>>)>>,
      <<"user_instructions", W("Brief")>>,
      <<"creativity", Null>>, <<"creativity", Str(<<>>)>>, <<"creativity", Num(9)>>,
      <<"conversation_style", Null>>, <<"conversation_style", List(<<>>)>>,
      <<"conversation_style", List(<<W("formal")>>)>>,
      <<"roles_person1", Null>>, <<"roles_person1", Str(<<>>)>>,
      <<"roles_person1", W("expert")>>,
      <<"roles_person2", Null>>, <<"roles_person2", Str(<<>>)>>,
      <<"roles_person2", W("novice")>>,
      <<"dialogue_structure", Null>>, <<"dialogue_structure", List(<<>>)>>,
      <<"dialogue_structure", List(<<W("Body")>>)>>,
      <<"engagement_techniques", Null>>, <<"engagement_techniques", List(<<>>)>>,
      <<"engagement_techniques", List(<<W("quiz")>>)>>,
      <<"podcast_name", Null>>, <<"podcast_name", Str(<<>>)>>,
      <<"podcast_name", W("MyCast")>>,
      <<"tagline", Null>>, <<"tagline", Str(<<>>)>>, <<"tagline", W("MyTagline")>> }

FieldRequests ==
    { WithKey({<<"topic", W("tides")>>}) } \cup
    { WithKey({<<"topic", W("tides")>>, fv}) : fv \in FieldValues }

FieldFiles == { Parsed(EmptyDict), Parsed(FullBase) }

\* ---- run "voices": the voices of the base document and of the request
BaseVoiceValues ==
    { W("Rachel"), Str(<<" ", "Rachel", " ">>), Str(<<"my", " ", "narrator">>),
      W("uUnmYv9aJqaqzs1wcFRH"), MkDict({<<"voice_id", W("uUnmYv9aJqaqzs1wcFRH")>>}),
      MkDict({<<"name", W("Rachel")>>}), MkDict({<<"id", W("abc123xyz9")>>}),
      Str(<<>>), Num(10) }

VoiceBase(voices) ==
    MkDict({<<"text_to_speech", MkDict({
        <<"default_tts_model", W("elevenlabs")>>,
        <<"elevenlabs", MkDict({<<"model", W("eleven_multilingual_v2")>>,
                                <<"default_voices", voices>>})>>,
        <<"openai", MkDict({<<"default_voices", MkDict({<<"question", W("echo")>>})>>})>>})>>})

VoiceFiles ==
    { Parsed(VoiceBase(EmptyDict)), Parsed(VoiceBase(MkDict({<<"answer", W("Rachel")>>}))) }
    \cup { Parsed(VoiceBase(MkDict({<<"question", q>>}))) : q \in BaseVoiceValues }
    \cup { Parsed(VoiceBase(MkDict({<<"question", q>>, <<"answer", a>>}))) :
              q \in BaseVoiceValues,
              a \in { W("Adam"), MkDict({<<"voice_id", W("uUnmYv9aJqaqzs1wcFRH")>>,
                                         <<"name", W("Adam")>>}) } }

RequestVoiceValues ==
    { W("abc123xyz9"), MkDict({<<"voice_id", W("abc123xyz9")>>}), W("Bella") }

VoiceRequests ==
    { WithKey({<<"topic", W("tides")>>}) }
    \cup { WithKey({<<"topic", W("tides")>>, <<"voices", MkDict({<<"answer", a>>})>>}) :
              a \in RequestVoiceValues }
    \cup { WithKey({<<"topic", W("tides")>>, <<"tts_model", m>>,
                    <<"voices", MkDict({<<"answer", a>>})>>}) :
              a \in RequestVoiceValues, m \in {W("elevenlabs"), W("openai")} }
    \cup { WithKey({<<"topic", W("tides")>>,
                    <<"voices", MkDict({<<"question", W("Bella")>>, <<"answer", a>>})>>}) :
              a \in RequestVoiceValues }

\* ---- run "words": word-count targets
Counts == (0..MaxCount) \cup {199, 200, 219, 220, 250, 500, 1000}

Targets ==
    { Num(n * 10) : n \in Counts }                          \* an int
    \cup { Str(FormatInt(n)) : n \in Counts }               \* a numeric string
    \cup { Num(n * 10 + 7) : n \in {0, 9, 10, 500} }        \* a float n.7
    \cup { Str(<<" ">> \o FormatInt(n) \o <<".", "9">>) : n \in {0, 10, 500} }
    \cup { Num(-10 * n) : n \in {1, 500} }
    \cup { Str(<<"-">> \o FormatInt(n)) : n \in {1, 500} }
    \cup { W("x"), Str(<<>>), Bool(TRUE), Null, List(<<Num(50)>>) }

WordRequests ==
    { WithKey({<<"topic", W("tides")>>}),
      WithKey({<<"topic", W("tides")>>, <<"user_instructions", W("Brief")>>}),
      WithKey({<<"topic", W("tides")>>, <<"word_count", Num(0)>>,
               <<"target_words", Num(5000)>>}),
      WithKey({<<"topic", W("tides")>>, <<"target_word_count", Num(70)>>}) }
    \cup { WithKey({<<"topic", W("tides")>>, <<"word_count", w>>,
                    <<"word_count_strict", Bool(strict)>>}) :
              w \in Targets, strict \in BOOLEAN }
    \cup { WithKey({<<"topic", W("tides")>>, <<"word_count", w>>,
                    <<"user_instructions", Str(<<" ", "Brief", "\n">>)>>}) : w \in Targets }

WordFiles == { Parsed(EmptyDict), Parsed(FullBase) }

\* ---- runs "keys" and "parallel": credentials
KeyRequests ==
    { MkDict({<<"topic", W("tides")>>} \cup o \cup g \cup e) :
        o \in { {}, {<<"openai_key", W("kA")>>}, {<<"openai_key", Str(<<" ", "kB", " ">>)>>} },
        g \in { {}, {<<"google_key", W("g1")>>}, {<<"google_key", W("g2")>>},
                {<<"google_api_key", W("g3")>>} },
        e \in { {}, {<<"elevenlabs_key", W("e1")>>} } }

ParallelRequests ==
    { MkDict({<<"topic", W("tides")>>, <<"openai_key", W("kA")>>}),
      MkDict({<<"topic", W("tides")>>, <<"openai_key", W("kB")>>,
              <<"google_key", W("g1")>>}),
      MkDict({<<"topic", W("tides")>>, <<"elevenlabs_key", W("e1")>>}),
      MkDict({<<"topic", W("tides")>>, <<"elevenlabs_key", W("e2")>>,
              <<"google_key", W("g2")>>}) }

Requests(u) ==
    CASE u = "content"  -> ContentRequests
      [] u = "fields"   -> FieldRequests
      [] u = "voices"   -> VoiceRequests
      [] u = "words"    -> WordRequests
      [] u = "keys"     -> KeyRequests
      [] u = "parallel" -> ParallelRequests
      [] OTHER -> {}

Files(u) ==
    CASE u = "content" -> ContentFiles
      [] u = "fields"  -> FieldFiles
      [] u = "voices"  -> VoiceFiles
      [] u = "words"   -> WordFiles
      [] OTHER -> { Parsed(FullBase) }

\* The environment at process start: nothing set, or the deployment's variables.
Environs(u) ==
    IF u \in {"keys", "parallel"}
    THEN { UnsetEnv,
           [UnsetEnv EXCEPT !["ELEVENLABS_KEY"] = W("eK")],
           [UnsetEnv EXCEPT !["GEMINI_API_KEY"] = W("g0")] }
    ELSE { [UnsetEnv EXCEPT !["ELEVENLABS_KEY"] = W("eK")] }

-----------------------------------------------------------------------------
(* Specifications of the request handler *)

\* line 150: a request arrives and a free worker thread takes it
Receive(t) ==
    /\ pc[t] = "idle"
    /\ t \in Workers(universe)
    /\ \E d \in Requests(universe) : data' = [data EXCEPT ![t] = d]
    /\ google_key' = [google_key EXCEPT ![t] = Null]
    /\ base_config' = [base_config EXCEPT ![t] = Null]
    /\ gp_kwargs' = [gp_kwargs EXCEPT ![t] = Pending]
    /\ seen_env' = [seen_env EXCEPT ![t] = UnsetEnv]
    /\ response' = [response EXCEPT ![t] = NoResponse]
    /\ Goto(t, "openai")
    /\ UNCHANGED <<value, voice, x, cleaned, environ, yaml_file, universe>>

InitRun(u) ==
    /\ universe = u
    /\ yaml_file \in Files(u)
    /\ environ \in Environs(u)
    /\ pc = [t \in Threads |-> "idle"]
    /\ data = [t \in Threads |-> EmptyDict]
    /\ google_key = [t \in Threads |-> Null]
    /\ base_config = [t \in Threads |-> Null]
    /\ gp_kwargs = [t \in Threads |-> Pending]
    /\ seen_env = [t \in Threads |-> UnsetEnv]
    /\ response = [t \in Threads |-> NoResponse]
    /\ value = Null /\ voice = Pending
    /\ x = Null /\ cleaned = Pending

Next ==
    \E t \in Threads :
        \/ Receive(t)
        \/ SetOpenAI(t)
        \/ SetGoogle(t)
        \/ TestGemini(t)
        \/ SetGemini(t)
        \/ SetElevenLabs(t)
        \/ TestAlias(t)
        \/ SetAlias(t)
        \/ LoadBaseConfig(t)
        \/ Resolve(t)
        \/ Call(t)
        \/ Return(t)

Init == InitRun("content")
Spec == Init /\ [][Next]_vars

InitFields == InitRun("fields")
SpecFields == InitFields /\ [][Next]_vars

InitVoices == InitRun("voices")
SpecVoices == InitVoices /\ [][Next]_vars

InitWords == InitRun("words")
SpecWords == InitWords /\ [][Next]_vars

InitKeys == InitRun("keys")
SpecKeys == InitKeys /\ [][Next]_vars

InitParallel == InitRun("parallel")
SpecParallel == InitParallel /\ [][Next]_vars

-----------------------------------------------------------------------------
(* Specification of _parse_voice alone *)

VoiceChars == {"a", " ", "\t"}

VoiceStrings == UNION { [1..n -> VoiceChars] : n \in 0..MaxVoiceLen }

VoiceInputs ==
    { Str(s) : s \in VoiceStrings }
    \cup { W("Rachel"), W("uUnmYv9aJqaqzs1wcFRH"), Str(<<"uUnmYv9aJqaqzs1wcFRH", "\n">>),
           Null, Num(10), List(<<W("Rachel")>>), EmptyDict,
           MkDict({<<"voice_id", W("abc123xyz9")>>, <<"name", W("Rachel")>>}),
           MkDict({<<"id", W("abc")>>, <<"name", W("Rachel")>>}),
           MkDict({<<"voice_id", Str(<<" ">>)>>, <<"name", Str(<<" ", "Rachel">>)>>}),
           MkDict({<<"name", Num(10)>>}) }

\* The handler is not running in the specifications of the helpers.
HandlerIdle(u) ==
    /\ universe = u
    /\ yaml_file = Broken("missing")
    /\ environ = UnsetEnv
    /\ pc = [t \in Threads |-> "idle"]
    /\ data = [t \in Threads |-> EmptyDict]
    /\ google_key = [t \in Threads |-> Null]
    /\ base_config = [t \in Threads |-> Null]
    /\ gp_kwargs = [t \in Threads |-> Pending]
    /\ seen_env = [t \in Threads |-> UnsetEnv]
    /\ response = [t \in Threads |-> NoResponse]

InitParseVoice ==
    /\ HandlerIdle("parse_voice")
    /\ value \in VoiceInputs
    /\ voice = Pending
    /\ x = Null /\ cleaned = Pending

ParseVoice ==
    /\ universe = "parse_voice"
    /\ voice = Pending
    /\ voice' = _parse_voice(value)
    /\ UNCHANGED <<value, x, cleaned, environ, yaml_file, pc, data, google_key,
                   base_config, gp_kwargs, seen_env, response, universe>>

NextParseVoice == ParseVoice

SpecParseVoice == InitParseVoice /\ [][NextParseVoice]_vars

-----------------------------------------------------------------------------
(* Specification of _strip_empty alone *)

DocLeaves == { Null, Str(<<>>), Str(<<" ">>), Str(<<" ", "a">>), Num(10), Bool(FALSE) }
DocKeys == <<"a", "b">>

RECURSIVE DocsOfSize(_)
RECURSIVE SeqsOfSize(_)
RECURSIVE MapsOfSize(_)

\* The documents with exactly n nodes (a node is a scalar, a list or a mapping).
DocsOfSize(n) ==
    IF n < 1 THEN {}
    ELSE (IF n = 1 THEN DocLeaves ELSE {})
         \cup { List(items) : items \in SeqsOfSize(n - 1) }
         \cup { Dict(f) : f \in MapsOfSize(n - 1) }

\* The lists whose items have m nodes in all.
SeqsOfSize(m) ==
    IF m = 0 THEN { <<>> }
    ELSE UNION { { <<d>> \o rest : d \in DocsOfSize(i), rest \in SeqsOfSize(m - i) } :
                 i \in 1..m }

\* The mappings over DocKeys whose values have m nodes in all.
MapsOfSize(m) ==
    (IF m = 0 THEN { <<>> } ELSE {})
    \cup { Entry(DocKeys[i], d) : i \in 1..2, d \in DocsOfSize(m) }
    \cup UNION { { Merge2(Entry(DocKeys[1], d1), Entry(DocKeys[2], d2)) :
                      d1 \in DocsOfSize(i), d2 \in DocsOfSize(m - i) } : i \in 1..(m - 1) }

\* {"a": "", "b": {"c": null}, "d": [1, "", 2]}
ExampleDoc ==
    MkDict({ <<"a", Str(<<>>)>>, <<"b", MkDict({<<"c", Null>>})>>,
             <<"d", List(<<Num(10), Str(<<>>), Num(20)>>)>> })

StripInputs == UNION { DocsOfSize(n) : n \in 1..MaxNodes } \cup { ExampleDoc }

InitStripEmpty ==
    /\ HandlerIdle("strip_empty")
    /\ x \in StripInputs
    /\ cleaned = Pending
    /\ value = Null /\ voice = Pending

StripEmpty ==
    /\ universe = "strip_empty"
    /\ cleaned = Pending
    /\ cleaned' = _strip_empty(x)
    /\ UNCHANGED <<value, voice, x, environ, yaml_file, pc, data, google_key,
                   base_config, gp_kwargs, seen_env, response, universe>>

NextStripEmpty == StripEmpty

SpecStripEmpty == InitStripEmpty /\ [][NextStripEmpty]_vars

-----------------------------------------------------------------------------
(* Properties *)

Same(a, b) == a.k = b.k /\ a.v = b.v

VoiceId(s) == Dict(Entry("voice_id", Str(s)))

\* C3, as stated: _parse_voice of a non-null string is the string itself when
\* it contains a whitespace character or has fewer than 10 characters, and
\* {voice_id: string} otherwise.
C3_AsStated ==
    (IsStr(value) /\ voice.k # "pending") =>
        IF (\E i \in 1..Len(value.v) : value.v[i] \in Whitespace) \/ len(value.v) < 10
        THEN Same(voice, value)
        ELSE Same(voice, VoiceId(value.v))

\* C3, amended: _parse_voice of a non-null string first trims it; a blank
\* string gives None; otherwise the trimmed string is returned bare when it
\* contains a space character or has fewer than 10 characters, and as
\* {voice_id: trimmed} otherwise.  "uUnmYv9aJqaqzs1wcFRH" gives
\* {voice_id: "uUnmYv9aJqaqzs1wcFRH"} and "Rachel" gives "Rachel".
C3_ParseVoiceClassifies ==
    (IsStr(value) /\ voice.k # "pending") =>
        LET s == strip(value.v)
        IN  /\ IF s = <<>> THEN IsNone(voice)
               ELSE IF Contains(s, " ") \/ len(s) < 10 THEN Same(voice, Str(s))
               ELSE Same(voice, VoiceId(s))
            /\ value = W("Rachel") => Same(voice, W("Rachel"))
            /\ value = W("uUnmYv9aJqaqzs1wcFRH") => Same(voice, VoiceId(<<"uUnmYv9aJqaqzs1wcFRH">>))

\* An id of exactly 10 characters after a leading blank has been classified as an id.
C3_Witness ==
    /\ value = Str(<<" ", "a", "a", "a", "a", "a", "a", "a", "a", "a", "a">>)
    /\ Same(voice, VoiceId(<<"a", "a", "a", "a", "a", "a", "a", "a", "a", "a">>))

\* No null, blank string, empty list or empty mapping anywhere inside a value.
RECURSIVE NoEmpty(_)
NoEmpty(a) ==
    CASE a.k = "null" -> FALSE
      [] a.k = "str"  -> a.v # <<>> /\ strip(a.v) = a.v
      [] a.k = "list" -> a.v # <<>> /\ \A i \in 1..Len(a.v) : NoEmpty(a.v[i])
      [] a.k = "dict" -> DOMAIN a.v # {} /\ \A kk \in DOMAIN a.v : NoEmpty(a.v[kk])
      [] OTHER -> TRUE

\* The non-empty scalars of a value, each with the keys leading to it.
RECURSIVE Scalars(_, _)
Scalars(a, path) ==
    CASE a.k = "null" -> {}
      [] a.k = "str"  -> IF strip(a.v) = <<>> THEN {} ELSE { <<path, Str(strip(a.v))>> }
      [] a.k = "list" -> UNION { Scalars(a.v[i], Append(path, <<"[]">>)) : i \in 1..Len(a.v) }
      [] a.k = "dict" -> UNION { Scalars(a.v[kk], Append(path, kk)) : kk \in DOMAIN a.v }
      [] OTHER -> { <<path, a>> }

\* How many non-empty scalars a value holds.
RECURSIVE SumOver(_, _)
SumOver(f, dom) ==
    IF dom = {} THEN 0
    ELSE LET e == CHOOSE e \in dom : TRUE IN f[e] + SumOver(f, dom \ {e})

RECURSIVE ScalarCount(_)
ScalarCount(a) ==
    CASE a.k = "null" -> 0
      [] a.k = "str"  -> IF strip(a.v) = <<>> THEN 0 ELSE 1
      [] a.k \in {"list", "dict"} ->
            SumOver([e \in DOMAIN a.v |-> ScalarCount(a.v[e])], DOMAIN a.v)
      [] OTHER -> 1

\* C7: _strip_empty removes exactly the nulls, the blank strings, the empty
\* lists and the empty mappings, bottom-up: nothing empty remains inside the
\* result, every other scalar is still there under the same keys, and a value
\* with nothing left is removed as a whole; the example strips to {"d": [1, 2]}.
C7_StripRemovesExactlyEmpties ==
    (cleaned.k # "pending") =>
        /\ IsNone(cleaned) \/ NoEmpty(cleaned)
        /\ Scalars(cleaned, <<>>) = Scalars(x, <<>>)
        /\ ScalarCount(cleaned) = ScalarCount(x)
        /\ IsNone(cleaned) <=> ScalarCount(x) = 0
        /\ x = ExampleDoc => Same(cleaned, MkDict({<<"d", List(<<Num(10), Num(20)>>)>>}))

\* The example document has been stripped to {"d": [1, 2]}.
C7_Witness ==
    /\ x = ExampleDoc
    /\ Same(cleaned, MkDict({<<"d", List(<<Num(10), Num(20)>>)>>}))

-----------------------------------------------------------------------------
(* Properties of the request handler *)

\* Thread t holds a request (being handled, or answered).
HasRequest(t) == pc[t] # "idle" \/ response[t].status # 0 \/ response[t].called

\* Thread t has resolved its request into the arguments of generate_podcast.
Built(t) == gp_kwargs[t].k # "pending"

\* Thread t is past lines 168-241, with arguments built or with an exception.
AfterResolve(t) ==
    \/ pc[t] \in {"call", "running"}
    \/ pc[t] = "idle" /\ (response[t].status # 0 \/ response[t].called)

\* The configuration handed to generate_podcast by thread t.
ResolvedConfig(t) == Get(gp_kwargs[t], "conversation_config")

\* doc[k1][k2]...: None when a key is missing or a level is no mapping.
RECURSIVE Path(_, _)
Path(doc, keys) ==
    IF keys = <<>> THEN doc
    ELSE IF IsDict(doc) /\ Head(keys) \in DOMAIN doc.v
    THEN Path(doc.v[Head(keys)], Tail(keys))
    ELSE Null

Selectors == {"text", "topic", "urls", "url_file", "transcript_file", "image_paths"}
NoSelector(d) == \A n \in Selectors : ~Has(d, n)

\* C1: a request with none of text, topic, urls, url_file, transcript_file and
\* image_paths ends in a client error: generate_podcast is never called for
\* it and the outcome is no server error.
C1_NoSelectorIsClientError ==
    \A t \in Threads :
        (HasRequest(t) /\ NoSelector(data[t])) =>
            /\ ~response[t].called
            /\ response[t].status # 0 => response[t].status \in 400..499

\* The value a request gives a field is present and not null, "" or [].
NonEmptyValue(a) ==
    /\ ~IsNone(a)
    /\ ~(IsStr(a) /\ a.v = <<>>)
    /\ ~(IsList(a) /\ a.v = <<>>)

\* The configurable fields: the request key, where the base document and the
\* resolved configuration hold it, and the literal default.
ConfigFields ==
    { [req |-> "tts_model", at |-> <<<<"text_to_speech">>, <<"default_tts_model">>>>,
       default |-> W("openai")],
      [req |-> "output_language", at |-> <<<<"output_language">>>>, default |-> W("English")],
      [req |-> "user_instructions", at |-> <<<<"user_instructions">>>>, default |-> Str(<<>>)],
      [req |-> "creativity", at |-> <<<<"creativity">>>>, default |-> Num(7)],
      [req |-> "conversation_style", at |-> <<<<"conversation_style">>>>, default |-> List(<<>>)],
      [req |-> "roles_person1", at |-> <<<<"roles_person1">>>>, default |-> Str(<<>>)],
      [req |-> "roles_person2", at |-> <<<<"roles_person2">>>>, default |-> Str(<<>>)],
      [req |-> "dialogue_structure", at |-> <<<<"dialogue_structure">>>>, default |-> List(<<>>)],
      [req |-> "engagement_techniques", at |-> <<<<"engagement_techniques">>>>,
       default |-> List(<<>>)],
      [req |-> "podcast_name", at |-> <<<<"podcast_name">>>>, default |-> Str(<<>>)],
      [req |-> "tagline", at |-> <<<<"podcast_tagline">>>>, default |-> Str(<<>>)] }

\* request > base > literal default
ByPrecedence(f, d, b) ==
    IF Has(d, f.req) /\ NonEmptyValue(Get(d, f.req)) THEN Get(d, f.req)
    ELSE IF ~IsNone(Path(b, f.at)) THEN Path(b, f.at)
    ELSE f.default

\* C2: every configurable field of the resolved configuration holds the
\* request's value if present and non-empty, otherwise the base's value if
\* present, otherwise the literal default (an empty value being an absent one
\* in the resolved configuration).
C2_FieldPrecedence ==
    \A t \in Threads :
        AfterResolve(t) =>
            /\ Built(t)
            /\ \A f \in ConfigFields :
                  Same(Path(ResolvedConfig(t), f.at),
                       _strip_empty(ByPrecedence(f, data[t], base_config[t])))

\* The engine a request selects.
SelectedEngine(d, b) ==
    IF Has(d, "tts_model") THEN Get(d, "tts_model")
    ELSE IF ~IsNone(Path(b, <<<<"text_to_speech">>, <<"default_tts_model">>>>))
    THEN Path(b, <<<<"text_to_speech">>, <<"default_tts_model">>>>)
    ELSE W("openai")

VoiceAt(doc, engine, role) ==
    Path(doc, <<<<"text_to_speech">>, KeyOf(engine), <<"default_voices">>, <<role>>>>)

\* The request sets voices.answer and no other voice.
OnlyAnswer(d) == IsDict(Get(d, "voices")) /\ DOMAIN Get(d, "voices").v = {<<"answer">>}

\* The base document defines a voice: a non-blank string, or a mapping with a
\* non-blank voice_id, id or name (the forms the docstring of _parse_voice lists).
DefinesVoice(a) ==
    \/ IsStr(a) /\ strip(a.v) # <<>>
    \/ /\ IsDict(a)
       /\ \E n \in {"voice_id", "id", "name"} :
             IsStr(Get(a, n)) /\ strip(Get(a, n).v) # <<>>

\* C4, as stated: when a request sets only voices.answer, the question voice
\* of the resolved configuration is present whenever the base defines one
\* for the selected engine, and is the value the base holds.
C4_AsStated ==
    \A t \in Threads :
        (Built(t) /\ OnlyAnswer(data[t])) =>
            LET engine == SelectedEngine(data[t], base_config[t])
                inBase == VoiceAt(base_config[t], engine, "question")
            IN  DefinesVoice(inBase) =>
                    Same(VoiceAt(ResolvedConfig(t), engine, "question"), inBase)

\* A trimmed voice name, or a {voice_id: id} mapping with a trimmed id.
IsNormalVoice(a) ==
    \/ /\ IsStr(a) /\ a.v # <<>> /\ strip(a.v) = a.v
       /\ Contains(a.v, " ") \/ len(a.v) < 10
    \/ /\ IsDict(a) /\ DOMAIN a.v = {<<"voice_id">>}
       /\ IsStr(a.v[<<"voice_id">>])
       /\ a.v[<<"voice_id">>].v # <<>>
       /\ strip(a.v[<<"voice_id">>].v) = a.v[<<"voice_id">>].v

\* What the merge of line 226 leaves of a voice the override sets to `parsed`
\* where the base document holds `inBase`: two mappings are merged key by key,
\* anything else is replaced.
VoiceAfterMerge(inBase, parsed) ==
    IF IsDict(inBase) /\ IsDict(parsed)
    THEN _strip_empty(Dict(Merge2(inBase.v, parsed.v)))
    ELSE parsed

\* C4, amended: when a request sets only voices.answer, the question voice of
\* the resolved configuration is the base's question voice for the selected
\* engine as _parse_voice classifies it, merged over the base's value when
\* both are mappings: the same value when the base holds a trimmed name or a
\* {voice_id: id} mapping, {voice_id: s} when it holds an id-like string s,
\* the trimmed name for a padded name or a {name: ...} mapping, the base
\* mapping with voice_id added for an {id: ...} mapping, and absent when the
\* base holds nothing that classifies; the answer voice is the request's,
\* merged over the base's in the same way.
C4_QuestionVoiceInherited ==
    \A t \in Threads :
        (Built(t) /\ OnlyAnswer(data[t])) =>
            LET engine == SelectedEngine(data[t], base_config[t])
                inBase == VoiceAt(base_config[t], engine, "question")
                got    == VoiceAt(ResolvedConfig(t), engine, "question")
            IN  /\ Same(got, VoiceAfterMerge(inBase, _parse_voice(inBase)))
                /\ IsNormalVoice(inBase) => Same(got, inBase)
                /\ Same(VoiceAt(ResolvedConfig(t), engine, "answer"),
                        VoiceAfterMerge(VoiceAt(base_config[t], engine, "answer"),
                                        _parse_voice(Get(Get(data[t], "voices"), "answer"))))

\* The request {tts_model: elevenlabs, voices: {answer: {voice_id: abc123xyz9}}}
\* against a base whose elevenlabs question voice is "Rachel" has been resolved
\* to question "Rachel" and answer {voice_id: abc123xyz9}.
C4_Witness ==
    /\ Built(1)
    /\ OnlyAnswer(data[1])
    /\ Get(data[1], "tts_model") = W("elevenlabs")
    /\ VoiceAt(base_config[1], W("elevenlabs"), "question") = W("Rachel")
    /\ VoiceAt(ResolvedConfig(1), W("elevenlabs"), "question") = W("Rachel")
    /\ Same(VoiceAt(ResolvedConfig(1), W("elevenlabs"), "answer"), VoiceId(<<"abc123xyz9">>))

\* C5: the configuration handed to generate_podcast always holds the selected
\* engine under text_to_speech.default_tts_model, the output language and the
\* engine's voice sub-document, and the call always gets the
\* conversation_config and tts_model arguments.
C5_RequiredFieldsPresent ==
    \A t \in Threads :
        Built(t) =>
            LET c == ResolvedConfig(t)
                engine == Path(c, <<<<"text_to_speech">>, <<"default_tts_model">>>>)
            IN  /\ Has(gp_kwargs[t], "conversation_config")
                /\ Has(gp_kwargs[t], "tts_model")
                /\ ~IsNone(engine)
                /\ ~IsNone(Path(c, <<<<"output_language">>>>))
                /\ IsDict(Path(c, <<<<"text_to_speech">>, KeyOf(engine), <<"default_voices">>>>))

\* A credential field is supplied: not null and not blank.
Supplied(a) == ~IsNone(a) /\ strip(PyStr(a)) # <<>>
Trimmed(a) == Str(strip(PyStr(a)))
GoogleKeyOf(d) == Or(Get(d, "google_key"), Get(d, "google_api_key"))

\* The variables every request that supplies the key writes: the call of
\* thread t saw in them what its own request supplied.
SawOwnKeys(t) ==
    LET d == data[t]
        e == seen_env[t]
    IN  /\ Supplied(Get(d, "openai_key")) => e["OPENAI_API_KEY"] = Trimmed(Get(d, "openai_key"))
        /\ Supplied(GoogleKeyOf(d)) => e["GOOGLE_API_KEY"] = Trimmed(GoogleKeyOf(d))
        /\ Supplied(Get(d, "elevenlabs_key")) =>
              e["ELEVENLABS_API_KEY"] = Trimmed(Get(d, "elevenlabs_key"))

\* C6: with requests handled one after the other, at the call of
\* generate_podcast the environment holds the request's own trimmed keys:
\* openai_key in OPENAI_API_KEY, google_key / google_api_key in GOOGLE_API_KEY
\* and in GEMINI_API_KEY, elevenlabs_key in ELEVENLABS_API_KEY; and
\* ELEVENLABS_API_KEY is set whenever ELEVENLABS_KEY is.
C6_CallSeesRequestKeys ==
    \A t \in Threads :
        response[t].called =>
            /\ SawOwnKeys(t)
            /\ Supplied(GoogleKeyOf(data[t])) =>
                  seen_env[t]["GEMINI_API_KEY"] = Trimmed(GoogleKeyOf(data[t]))
            /\ Truthy(seen_env[t]["ELEVENLABS_KEY"]) => Truthy(seen_env[t]["ELEVENLABS_API_KEY"])

\* C10: with two requests handled in parallel, every call of generate_podcast
\* runs with the credential variables its own request wrote.
C10_ParallelCallsSeeOwnKeys ==
    \A t \in Threads : response[t].called => SawOwnKeys(t)

\* The base document cannot be used: no file, unreadable, unparsable, or no mapping.
Unusable(file) == file.state # "parsed" \/ ~IsDict(file.doc)

\* C9: when the base document cannot be used, the request is resolved
\* against an empty base document and the failure gives no error response.
C9_UnusableBaseIsEmptyBase ==
    \A t \in Threads :
        Unusable(yaml_file) =>
            /\ pc[t] \in {"resolve", "call", "running"} => Same(base_config[t], EmptyDict)
            /\ response[t].status = 500 => response[t].called

\* f"{n}" for any int
FormatSigned(n) == IF n < 0 THEN <<"-">> \o FormatInt(-n) ELSE FormatInt(n)

\* The instruction naming n (strict) or the bounds lo and hi.
Instruction(n, strict, lo, hi) ==
    IF strict
    THEN <<"Schreibe", " ", "exakt", " ">> \o FormatSigned(n) \o <<" ", "Woerter.">>
    ELSE <<"Zielumfang:", " ">> \o FormatSigned(lo) \o <<" ", "bis", " ">>
         \o FormatSigned(hi) \o <<" ", "Woerter.">>

\* The user_instructions a request resolves to before the word count is
\* looked at: the request's if non-empty, else the base's, trimmed.
OriginalInstructions(d, b) ==
    LET r == Get(d, "user_instructions")
        o == IF Truthy(r) THEN r ELSE GetD(b, "user_instructions", Str(<<>>))
    IN  strip(o.v)

\* user_instructions of the resolved configuration: `orig`, then the line.
Extended(orig, line) == IF orig # <<>> THEN orig \o <<"\n">> \o line ELSE line

\* The words asked for, and the band's half-width max(10, 5%) (5% rounded down).
Target(d) == Trunc(word_count(d).v)
HalfBand(n) == IF n \div 20 > 10 THEN n \div 20 ELSE 10

\* user_instructions is left as it was (absent when it was blank).
LeftAsItWas(t) ==
    LET orig == OriginalInstructions(data[t], base_config[t])
        got  == Path(ResolvedConfig(t), <<<<"user_instructions">>>>)
    IN  IF orig = <<>> THEN IsNone(got) ELSE Same(got, Str(orig))

\* C8, as stated: for a target that coerces to a positive integer n the
\* resolved user_instructions is the original followed by one instruction
\* naming n in strict mode and n - d and n + d, d = max(10, 5% of n),
\* otherwise; without such a target user_instructions is left as it was.
C8_AsStated ==
    \A t \in Threads :
        Built(t) =>
            LET d == data[t]
                n == Target(d)
                orig == OriginalInstructions(d, base_config[t])
            IN  IF Truthy(word_count(d))
                THEN Same(Path(ResolvedConfig(t), <<<<"user_instructions">>>>),
                          Str(Extended(orig, Instruction(n, word_count_strict(d),
                                                         n - HalfBand(n), n + HalfBand(n)))))
                ELSE LeftAsItWas(t)

\* C8, amended: as stated, with the lower bound never below 1:
\* max(1, n - d) and n + d with d = max(10, 5% of n rounded down); the original
\* user_instructions is trimmed; n = 500 gives 475 and 525, n = 5 gives 1 and 15.
C8_WordCountInstruction ==
    \A t \in Threads :
        Built(t) =>
            LET d == data[t]
                n == Target(d)
                lo == IF n - HalfBand(n) < 1 THEN 1 ELSE n - HalfBand(n)
                orig == OriginalInstructions(d, base_config[t])
                got == Path(ResolvedConfig(t), <<<<"user_instructions">>>>)
            IN  /\ IF Truthy(word_count(d))
                   THEN Same(got, Str(Extended(orig, Instruction(n, word_count_strict(d),
                                                                 lo, n + HalfBand(n)))))
                   ELSE LeftAsItWas(t)
                /\ (Get(d, "word_count") \in {Num(5000), Str(<<"5", "0", "0">>)}
                    /\ ~Has(d, "user_instructions") /\ ~Has(base_config[t], "user_instructions")) =>
                      Same(got, Str(IF word_count_strict(d)
                                    THEN <<"Schreibe", " ", "exakt", " ", "5", "0", "0", " ",
                                           "Woerter.">>
                                    ELSE <<"Zielumfang:", " ", "4", "7", "5", " ", "bis", " ",
                                           "5", "2", "5", " ", "Woerter.">>))
                /\ Get(d, "word_count") \in {Num(0), Num(-10), Str(<<"-", "1">>), W("x"), Null}
                   /\ ~Has(d, "target_words") /\ ~Has(d, "target_word_count") => LeftAsItWas(t)

\* The request {word_count: "500", user_instructions: " Brief\n"} has been
\* resolved to "Brief", a newline, and the band 475 to 525.
C8_Witness ==
    /\ Built(1)
    /\ Get(data[1], "word_count") = Str(<<"5", "0", "0">>)
    /\ Same(Path(ResolvedConfig(1), <<<<"user_instructions">>>>),
            Str(<<"Brief", "\n", "Zielumfang:", " ", "4", "7", "5", " ", "bis", " ",
                  "5", "2", "5", " ", "Woerter.">>))

====
